---- MODULE Spec2Model ----
(***************************************************************************)
(* rustybot: an actix-web gateway with two LLM routes.                     *)
(*   POST /completion  -> completion  (llm-chain executor, OpenRouter)     *)
(*   POST /groqlive    -> groqlive    (raw reqwest call to Groq)           *)
(*   GET  /name[/..]   -> greeter_default / greeter_with_name              *)
(* The model follows src/src/main.rs: main's startup sequence, and each    *)
(* handler as the sequence of its await points.                            *)
(***************************************************************************)
EXTENDS Integers, Sequences, FiniteSets, TLC

VARIABLES env, mainPc, mainErr, appState, req

vars == <<env, mainPc, mainErr, appState, req>>

(***************************************************************************)
(* Bounds of the model.                                                    *)
(***************************************************************************)
NumRequests == 2    \* requests handled (concurrently) in one run
MaxChoices  == 2    \* longest "choices" array an upstream body carries

Reqs == 1..NumRequests

(***************************************************************************)
(* Option<T> as a set with at most one element; opt.and_then(f) is the    *)
(* union of f over the elements of opt.                                    *)
(***************************************************************************)
None == {}
Some(x) == {x}
UnwrapOr(opt, d) == IF opt = {} THEN d ELSE CHOOSE x \in opt : TRUE

(***************************************************************************)
(* serde_json::Value.  An object is a sequence of <<key, value>> pairs.    *)
(***************************************************************************)
Null   == [k |-> "null"]
Str(s) == [k |-> "str", s |-> s]
Num(n) == [k |-> "num", n |-> n]
Arr(a) == [k |-> "arr", a |-> a]
Obj(o) == [k |-> "obj", o |-> o]

\* Value::get(&str): Some(member) on an object holding the key, else None.
Get(v, key) ==
    IF v.k = "obj" /\ \E i \in 1..Len(v.o) : v.o[i][1] = key
    THEN Some(v.o[CHOOSE i \in 1..Len(v.o) : v.o[i][1] = key][2])
    ELSE None

\* Value::as_array: Some(elements) on an array, else None.
AsArray(v) == IF v.k = "arr" THEN Some(v.a) ELSE None

\* Faulty variant of First: indexes from the end of the slice.
FirstIsLast(a) == IF Len(a) >= 1 THEN Some(a[Len(a)]) ELSE None

\* <[Value]>::get(0): the first element, None on an empty slice.
First(a) == IF Len(a) >= 1 THEN Some(a[1]) ELSE None

\* Value::as_str: Some(text) on a string, else None.
AsStr(v) == IF v.k = "str" THEN Some(v.s) ELSE None

Placeholder == "No answer received"

\* groqlive's extraction: choices[0].message.content as a string, or the
\* placeholder.
GetChoices(v)  == Get(v, "choices")
GetMessage(c)  == Get(c, "message")
GetContent(m)  == Get(m, "content")
ExtractAnswer(json) ==
    LET choices == GetChoices(json)
        arr     == UNION {AsArray(c) : c \in choices}     \* and_then(as_array)
        choice  == UNION {First(a) : a \in arr}           \* and_then(arr.get(0))
        msg     == UNION {GetMessage(c) : c \in choice}   \* and_then(get("message"))
        content == UNION {GetContent(m) : m \in msg}      \* and_then(get("content"))
        text    == UNION {AsStr(c) : c \in content}       \* and_then(as_str)
    IN  UnwrapOr(text, Placeholder)

(***************************************************************************)
(* Text of an HTTP body: either the serialisation of a JSON value, or text *)
(* that is not JSON.  A body may also fail to be read at all.              *)
(***************************************************************************)
JsonText(v) == [t |-> "json", v |-> v]
RawText(s)  == [t |-> "raw", s |-> s]
BodyOk(text) == [read |-> "ok", text |-> text]
BodyReadErr  == [read |-> "err"]

\* reqwest Response::text(): the body text, or an error.
ResponseText(body) == IF body.read = "ok" THEN Some(body.text) ELSE None

\* reqwest Response::json::<Value>(): the decoded document, or an error when
\* the body cannot be read or is not JSON.
ResponseJson(body) ==
    IF body.read = "ok" /\ body.text.t = "json" THEN Some(body.text.v) ELSE None

\* Faulty variant of IsSuccess: redirects count as success.
IsSuccessOrRedirect(status) == 200 <= status /\ status <= 399

\* StatusCode::is_success
IsSuccess(status) == 200 <= status /\ status <= 299

(***************************************************************************)
(* Responses.                                                              *)
(***************************************************************************)
\* HttpResponse::Ok().json(CompletionResponse { answer })
AnswerResponse(answer) ==
    [status |-> 200, body |-> [kind |-> "answer", answer |-> answer]]

\* HttpResponse::build(status).json(json!({ "error": error_body }))
ErrorResponse(status, text) ==
    [status |-> status, body |-> [kind |-> "error", error |-> text]]

\* actix_web::error::ErrorInternalServerError(cause), returned as Err: the
\* request is answered with status 500.  The text of the body is produced
\* from `cause` outside this source; the response records the cause it was
\* built from and says nothing about that text.
Message(parts) == [kind |-> "message", parts |-> parts]
InternalServerError(cause) ==
    [status |-> 500, body |-> [kind |-> "plain", cause |-> cause]]

\* HttpResponse::Ok().body(text)
OkBody(parts) == [status |-> 200, body |-> [kind |-> "plain", parts |-> parts]]

(***************************************************************************)
(* Inputs: what callers send and what the two upstream providers reply.    *)
(***************************************************************************)
Questions == {"q1", "q2"}
Names     == {"bob"}
EnvVars   == {"OPENROUTER_API_KEY", "GROQ_API_KEY", "MODEL"}
\* A value the variable may hold when it is set.
EnvValue(k) == IF k = "MODEL" THEN "openai/gpt-4o-mini" ELSE "sk-key"
Routes    == {"/completion", "/groqlive", "/name/{nameparam}", "/name"}

\* The arguments a request on a route carries (question or path parameter).
RouteArgs(route) ==
    CASE route = "/name/{nameparam}" -> Names
      [] route = "/name"             -> {""}
      [] OTHER                       -> Questions

NoReply == [kind |-> "none"]

\* An HTTP reply of the Groq endpoint, or a transport failure of send().
HttpReply(status, body) == [kind |-> "http", status |-> status, body |-> body]
SendErr(e)              == [kind |-> "senderr", err |-> e]

\* JSON documents an upstream may return, by shape.
ContentVals == {Str("X"), Str(""), Num(7), Null}
MessageVals ==
    {Obj(<< <<"content", c>> >>) : c \in ContentVals} \cup {Obj(<< >>), Str("hi")}
ChoiceVals  ==
    {Obj(<< <<"message", m>> >>) : m \in MessageVals} \cup {Obj(<< >>), Null}
ChoiceArrays == UNION {[1..n -> ChoiceVals] : n \in 0..MaxChoices}
GoodJson  == Obj(<< <<"choices", Arr(<< Obj(<< <<"message",
                 Obj(<< <<"role", Str("assistant")>>, <<"content", Str("X")>> >>)>> >>) >>)>> >>)
ErrorJson == Obj(<< <<"error", Str("rate limited")>> >>)
JsonDocs ==
    {Obj(<< <<"choices", Arr(a)>> >>) : a \in ChoiceArrays}
      \cup {Obj(<< <<"id", Str("1")>>, <<"choices", Arr(a)>> >>) : a \in ChoiceArrays}
      \cup {Obj(<< <<"choices", v>> >>) : v \in {Null, Str("X"), GoodJson}}
      \cup {Arr(a) : a \in ChoiceArrays}
      \cup {GoodJson, ErrorJson, Obj(<< >>), Null, Str("X"), Num(7)}

AllBodies ==
    {BodyOk(JsonText(j)) : j \in JsonDocs}
      \cup {BodyOk(RawText("")), BodyOk(RawText("<html>")), BodyReadErr}
AllStatuses == {200, 299, 300, 429}
AllGroqReplies ==
    {HttpReply(st, b) : st \in AllStatuses, b \in AllBodies}
      \cup {SendErr("connection refused")}

CoreGroqReplies ==
    {HttpReply(200, BodyOk(JsonText(GoodJson))),
     HttpReply(200, BodyOk(RawText("<html>"))),
     HttpReply(429, BodyOk(JsonText(ErrorJson))),
     HttpReply(429, BodyReadErr),
     SendErr("connection refused")}

\* Outcomes of the chain executor: Chain::run fails with an error, or yields
\* an output whose resolution (to_immediate) fails or succeeds with an
\* optional primary text.
RunErr(e) == [kind |-> "chain", run |-> "err", err |-> e, imm |-> "none", primary |-> None]
RunOk     == [kind |-> "chain", run |-> "ok", err |-> [what |-> "", diag |-> ""],
              imm |-> "pending", primary |-> None]
ApiError(diag)  == [what |-> "api error", diag |-> diag]
TransportError  == [what |-> "http error", diag |-> ""]
StreamError     == [what |-> "stream error", diag |-> ""]
AllRunResults   == {RunOk, RunErr(ApiError("rate limited")), RunErr(TransportError)}
CoreRunResults  == {RunOk, RunErr(ApiError("rate limited"))}
\* to_immediate outcomes: <<"err", error, {}>> or <<"ok", _, primary>>
ImmErr(e)    == [imm |-> "err", err |-> e, primary |-> None]
ImmOk(prim)  == [imm |-> "ok", err |-> [what |-> "", diag |-> ""], primary |-> prim]
AllImmResults  == {ImmErr(StreamError), ImmOk(None), ImmOk(Some("Y")), ImmOk(Some(""))}
CoreImmResults == {ImmErr(StreamError), ImmOk(None), ImmOk(Some("Y"))}

(***************************************************************************)
(* State.                                                                  *)
(*   env     the process environment: variable name -> Option<value>       *)
(*   mainPc  where main() is                                               *)
(*   mainErr the error main() returned, "" while it has returned none      *)
(*   appState the shared AppState (executor and chain), None until built   *)
(*   req     per request: route, argument, position of its handler, the    *)
(*           outbound calls made, the upstream reply, the responses sent   *)
(***************************************************************************)
NewRequest ==
    [route |-> "", arg |-> "", pc |-> "NotReceived", calls |-> << >>,
     reply |-> NoReply, out |-> << >>]

Init ==
    /\ env \in {e \in [EnvVars -> {None} \cup {Some(EnvValue(k)) : k \in EnvVars}] :
                 \A k \in EnvVars : e[k] \in {None, Some(EnvValue(k))}}
    /\ mainPc = "dotenv"
    /\ mainErr = ""
    /\ appState = None
    /\ req = [r \in Reqs |-> NewRequest]

\* std::env::var(name): Ok(value) when set, Err otherwise.
EnvVar(name) == env[name]

(***************************************************************************)
(* main()                                                                  *)
(***************************************************************************)
\* dotenv::dotenv().ok(): variables of a .env file are added to the
\* environment unless already set; a missing file changes nothing.
Dotenv ==
    /\ mainPc = "dotenv"
    /\ \E file \in SUBSET EnvVars :
          env' = [k \in EnvVars |->
                    IF env[k] = None /\ k \in file THEN Some(EnvValue(k)) ELSE env[k]]
    /\ mainPc' = "config"
    /\ UNCHANGED <<mainErr, appState, req>>

\* Faulty variant of OpenRouterKey: a missing variable reads as "".
OpenRouterKeyOrEmpty == Some(UnwrapOr(EnvVar("OPENROUTER_API_KEY"), ""))

\* env::var("OPENROUTER_API_KEY")? and the construction of executor, chain
\* and AppState.
OpenRouterKey == EnvVar("OPENROUTER_API_KEY")
DefaultModel  == "meta-llama/llama-3.2-3b-instruct"
PromptTemplate == "You are a helpful assistant. Answer concisely:\n{{question}}"
BuildConfig ==
    /\ mainPc = "config"
    /\ IF OpenRouterKey = None
       THEN /\ mainPc' = "failed"
            /\ mainErr' = "OPENROUTER_API_KEY: NotPresent"
            /\ appState' = appState
       ELSE /\ mainPc' = "bind"
            /\ mainErr' = mainErr
            /\ appState' = Some([api_key  |-> UnwrapOr(OpenRouterKey, ""),
                                 api_base |-> "https://openrouter.ai/api/v1",
                                 model    |-> UnwrapOr(EnvVar("MODEL"), DefaultModel),
                                 template |-> PromptTemplate])
    /\ UNCHANGED <<env, req>>

\* HttpServer::new(..).bind(addr)?.run(): the listener binds, or bind fails.
Bind ==
    /\ mainPc = "bind"
    /\ \E ok \in BOOLEAN :
          IF ok THEN mainPc' = "serving" /\ mainErr' = mainErr
                ELSE mainPc' = "failed" /\ mainErr' = "bind: address in use"
    /\ UNCHANGED <<env, appState, req>>

(***************************************************************************)
(* Request handlers.  A request's pc is its place in the pipeline:         *)
(*   NotReceived, Idle (routed to its handler), Calling (outbound call in  *)
(*   flight), Extracting (reply held, its body being read), Done (200      *)
(*   sent), Failed (error sent)                                            *)
(***************************************************************************)
Respond(r, pc, reply, resp) ==
    req' = [req EXCEPT ![r].pc = pc, ![r].reply = reply,
                       ![r].out = Append(req[r].out, resp)]

\* The server routes an inbound request to its handler.  For the two POST
\* routes this is a request whose body deserialises as CompletionRequest:
\* the handler is invoked with `req.question` in hand.
Receive(r) ==
    /\ mainPc = "serving"
    /\ req[r].pc = "NotReceived"
    /\ \E route \in Routes : \E arg \in RouteArgs(route) :
          req' = [req EXCEPT ![r].route = route, ![r].arg = arg, ![r].pc = "Idle"]
    /\ UNCHANGED <<env, mainPc, mainErr, appState>>

\* greeter_with_name
GreeterWithName(r) ==
    /\ req[r].pc = "Idle" /\ req[r].route = "/name/{nameparam}"
    /\ Respond(r, "Done", NoReply, OkBody(<<"Hello, ", req[r].arg, "!">>))
    /\ UNCHANGED <<env, mainPc, mainErr, appState>>

\* greeter_default
GreeterDefault(r) ==
    /\ req[r].pc = "Idle" /\ req[r].route = "/name"
    /\ Respond(r, "Done", NoReply, OkBody(<<"Hello, world!">>))
    /\ UNCHANGED <<env, mainPc, mainErr, appState>>

(***************************************************************************)
(* completion                                                              *)
(***************************************************************************)
\* Parameters::new().with("question", ..) and chain.run(..): the call to the
\* executor is issued.
CompletionRun(r) ==
    /\ req[r].pc = "Idle" /\ req[r].route = "/completion"
    /\ req' = [req EXCEPT ![r].pc = "Calling",
                          ![r].calls = Append(req[r].calls,
                              LET st == UnwrapOr(appState, [api_key |-> "", api_base |-> "",
                                                            model |-> "", template |-> ""])
                              IN  [to |-> st.api_base, auth |-> st.api_key,
                                   model |-> st.model,
                                   prompt |-> <<st.template, req[r].arg>>])]
    /\ UNCHANGED <<env, mainPc, mainErr, appState>>

\* chain.run(..).await.map_err(ErrorInternalServerError)?
CompletionRunReturns(r, results) ==
    /\ req[r].pc = "Calling" /\ req[r].route = "/completion"
    /\ \E res \in results :
          IF res.run = "err"
          THEN Respond(r, "Failed", res, InternalServerError(res.err))
          ELSE req' = [req EXCEPT ![r].pc = "Extracting", ![r].reply = res]
    /\ UNCHANGED <<env, mainPc, mainErr, appState>>

\* primary_textual_output().unwrap_or_else(|| "No answer received")
CompletionAnswer(primary) == UnwrapOr(primary, Placeholder)

\* Faulty variant of CompletionResponse: a failed resolution degrades to
\* the placeholder.
CompletionResponseLenient(im) == AnswerResponse(CompletionAnswer(im.primary))

\* The response once to_immediate() has resolved to `im`.
CompletionResponse(im) ==
    IF im.imm = "err"
    THEN InternalServerError(im.err)
    ELSE AnswerResponse(CompletionAnswer(im.primary))

\* output.to_immediate().await.map_err(..)?.primary_textual_output()... and
\* the 200 response.
CompletionExtract(r, imms) ==
    /\ req[r].pc = "Extracting" /\ req[r].route = "/completion"
    /\ \E im \in imms :
          LET res  == [req[r].reply EXCEPT !.imm = im.imm, !.err = im.err,
                                          !.primary = im.primary]
              resp == CompletionResponse(im)
          IN  Respond(r, IF resp.status = 200 THEN "Done" ELSE "Failed", res, resp)
    /\ UNCHANGED <<env, mainPc, mainErr, appState>>

(***************************************************************************)
(* groqlive                                                                *)
(***************************************************************************)
\* Faulty variants of GroqApiKey: a missing variable reads as ""; the key is
\* consumed by the first request that uses it.
GroqApiKeyOrEmpty == Some(UnwrapOr(EnvVar("GROQ_API_KEY"), ""))
GroqApiKeyTakenOnce ==
    IF \E r \in Reqs : req[r].route = "/groqlive" /\ req[r].calls # << >>
    THEN None
    ELSE EnvVar("GROQ_API_KEY")

\* env::var("GROQ_API_KEY")
GroqApiKey == EnvVar("GROQ_API_KEY")

\* env::var("GROQ_API_KEY").map_err(..)?, then the POST is built and sent.
GroqliveStart(r) ==
    /\ req[r].pc = "Idle" /\ req[r].route = "/groqlive"
    /\ IF GroqApiKey = None
       THEN Respond(r, "Failed", NoReply, InternalServerError(Message(<<"GROQ_API_KEY not set">>)))
       ELSE req' = [req EXCEPT ![r].pc = "Calling",
                              ![r].calls = Append(req[r].calls,
                                  [to |-> "https://api.groq.com/openai/v1/chat/completions",
                                   auth |-> UnwrapOr(GroqApiKey, ""),
                                   model |-> "groq/compound-mini",
                                   role |-> "user",
                                   content |-> req[r].arg])]
    /\ UNCHANGED <<env, mainPc, mainErr, appState>>

\* The error body of a non-success reply: response.text() or "Unknown error".
ErrorBody(body) == UnwrapOr(ResponseText(body), RawText("Unknown error"))

\* Faulty variant of GroqliveSendReturns: a transport failure sends the
\* request back to the start of the handler.
GroqliveSendRetries(r, replies) ==
    /\ req[r].pc = "Calling" /\ req[r].route = "/groqlive"
    /\ \E rep \in replies :
          IF rep.kind = "senderr"
          THEN req' = [req EXCEPT ![r].pc = "Idle"]
          ELSE req' = [req EXCEPT ![r].pc = "Extracting", ![r].reply = rep]
    /\ UNCHANGED <<env, mainPc, mainErr, appState>>

\* send().await.map_err(..)?: a transport failure is answered 500; otherwise
\* the handler holds the reply (its status is known) and suspends on reading
\* the body: text().await for a non-success status, json().await otherwise.
GroqliveSendReturns(r, replies) ==
    /\ req[r].pc = "Calling" /\ req[r].route = "/groqlive"
    /\ \E rep \in replies :
          IF rep.kind = "senderr"
          THEN Respond(r, "Failed", rep,
                       InternalServerError(Message(<<"Request failed: ", rep.err>>)))
          ELSE req' = [req EXCEPT ![r].pc = "Extracting", ![r].reply = rep]
    /\ UNCHANGED <<env, mainPc, mainErr, appState>>

\* if !status.is_success(): response.text().await resumes and the reply is
\* passed through with its status and {error: error_body}.
GroqlivePassThrough(r) ==
    /\ req[r].pc = "Extracting" /\ req[r].route = "/groqlive"
    /\ ~IsSuccess(req[r].reply.status)
    /\ Respond(r, "Failed", req[r].reply,
               ErrorResponse(req[r].reply.status, ErrorBody(req[r].reply.body)))
    /\ UNCHANGED <<env, mainPc, mainErr, appState>>

\* Faulty variant of GroqliveResponse: an undecodable body reads as null.
GroqliveResponseLenient(body) ==
    AnswerResponse(ExtractAnswer(UnwrapOr(ResponseJson(body), Null)))

\* The response to a success-status reply with this body: response.json()
\* decoded and the answer extracted, or 500 when decoding fails.
GroqliveResponse(body) ==
    IF ResponseJson(body) = None
    THEN InternalServerError(Message(<<"Failed to parse response: ", "error decoding response body">>))
    ELSE AnswerResponse(ExtractAnswer(UnwrapOr(ResponseJson(body), Null)))

\* response.json().await.map_err(..)?, the extraction and the 200 response.
GroqliveExtract(r) ==
    /\ req[r].pc = "Extracting" /\ req[r].route = "/groqlive"
    /\ IsSuccess(req[r].reply.status)
    /\ LET resp == GroqliveResponse(req[r].reply.body)
       IN  Respond(r, IF resp.status = 200 THEN "Done" ELSE "Failed", req[r].reply, resp)
    /\ UNCHANGED <<env, mainPc, mainErr, appState>>

(***************************************************************************)
(* Specifications.                                                         *)
(***************************************************************************)
Handle(r, groqReplies, runResults, immResults) ==
    \/ Receive(r)
    \/ GreeterWithName(r)
    \/ GreeterDefault(r)
    \/ CompletionRun(r)
    \/ CompletionRunReturns(r, runResults)
    \/ CompletionExtract(r, immResults)
    \/ GroqliveStart(r)
    \/ GroqliveSendReturns(r, groqReplies)
    \/ GroqlivePassThrough(r)
    \/ GroqliveExtract(r)

\* The server with NumRequests concurrent requests.
Next ==
    \/ Dotenv
    \/ BuildConfig
    \/ Bind
    \/ \E r \in Reqs : Handle(r, CoreGroqReplies, CoreRunResults, CoreImmResults)

Spec == Init /\ [][Next]_vars

\* The server handling one request, over every upstream reply shape.
NextOne ==
    \/ Dotenv
    \/ BuildConfig
    \/ Bind
    \/ Handle(1, AllGroqReplies, AllRunResults, AllImmResults)

SpecOne == Init /\ [][NextOne]_vars

(***************************************************************************)
(* Vocabulary of the properties.                                           *)
(***************************************************************************)
Finished(r)  == req[r].pc \in {"Done", "Failed"}
Response(r)  == req[r].out[1]
OnDirect(r)  == req[r].route = "/groqlive"
OnChain(r)   == req[r].route = "/completion"
Started      == mainPc # "dotenv"
InSuccessRange(status) == status \in 200..299
HasKey(v, key) == v.k = "obj" /\ \E i \in DOMAIN v.o : v.o[i][1] = key
Field(v, key)  == v.o[CHOOSE i \in DOMAIN v.o : v.o[i][1] = key][2]
\* Every step of choices[0].message.content succeeds and ends at a string.
NavigatesToString(j) ==
    /\ HasKey(j, "choices")
    /\ Field(j, "choices").k = "arr"
    /\ Len(Field(j, "choices").a) >= 1
    /\ HasKey(Field(j, "choices").a[1], "message")
    /\ HasKey(Field(Field(j, "choices").a[1], "message"), "content")
    /\ Field(Field(Field(j, "choices").a[1], "message"), "content").k = "str"
StringAt(j) == Field(Field(Field(j, "choices").a[1], "message"), "content").s
\* A direct-route request that got an HTTP reply.
GotHttp(r) == OnDirect(r) /\ req[r].reply.kind = "http"
DecodesAsJson(body) == body.read = "ok" /\ body.text.t = "json"

\* C1: on the direct route, a success-status reply whose body decodes as JSON
\* is answered 200 {answer: A}: A is the string at choices[0].message.content
\* when the navigation succeeds, the placeholder otherwise; never an error.
C1_DirectAnswerOrPlaceholder ==
    \A r \in Reqs :
      (Finished(r) /\ GotHttp(r) /\ InSuccessRange(req[r].reply.status)
         /\ DecodesAsJson(req[r].reply.body))
      => LET j == req[r].reply.body.text.v
         IN  /\ req[r].pc = "Done"
             /\ req[r].out =
                  << [status |-> 200,
                      body |-> [kind |-> "answer",
                                answer |-> IF NavigatesToString(j) THEN StringAt(j)
                                           ELSE "No answer received"]] >>

\* C1 witness: a two-choice document answered with its first choice's text,
\* under a success status other than 200.
C1_Witness ==
    \E r \in Reqs :
      /\ req[r].pc = "Done" /\ GotHttp(r) /\ req[r].reply.status = 299
      /\ DecodesAsJson(req[r].reply.body)
      /\ HasKey(req[r].reply.body.text.v, "choices")
      /\ Field(req[r].reply.body.text.v, "choices").k = "arr"
      /\ Len(Field(req[r].reply.body.text.v, "choices").a) = 2
      /\ Response(r).body.answer = "X"

\* C2 as stated: a non-success reply on the direct route is answered with the
\* upstream's status and {error: body}, body being the upstream body text
\* verbatim, and never with the answer envelope.
C2_PassThroughVerbatim ==
    \A r \in Reqs :
      (Finished(r) /\ GotHttp(r) /\ ~InSuccessRange(req[r].reply.status))
      => /\ req[r].reply.body.read = "ok"
         /\ req[r].out =
              << [status |-> req[r].reply.status,
                  body |-> [kind |-> "error", error |-> req[r].reply.body.text]] >>

\* C2 amended: the status is the upstream's and the envelope is {error: body};
\* body is the upstream body text verbatim when that text can be read, and
\* the fixed text "Unknown error" when reading it fails; never the answer
\* envelope.
C2_PassThroughOrUnknown ==
    \A r \in Reqs :
      (Finished(r) /\ GotHttp(r) /\ ~InSuccessRange(req[r].reply.status))
      => /\ req[r].pc = "Failed"
         /\ req[r].out =
              << [status |-> req[r].reply.status,
                  body |-> [kind |-> "error",
                            error |-> IF req[r].reply.body.read = "ok"
                                      THEN req[r].reply.body.text
                                      ELSE [t |-> "raw", s |-> "Unknown error"]]] >>

\* C2 witness: a 429 whose JSON body came back as text inside {error: ..}.
C2_Witness ==
    \E r \in Reqs :
      /\ Finished(r) /\ GotHttp(r) /\ req[r].reply.status = 429
      /\ req[r].reply.body = BodyOk(JsonText(ErrorJson))
      /\ Response(r).status = 429
      /\ Response(r).body.kind = "error"

\* C3: with the direct-backend credential absent, every /groqlive request
\* ends in 500 without an outbound call ever being made for it, whatever the
\* question; the server still starts.
C3_MissingGroqKeyFailsFast ==
    (Started /\ env["GROQ_API_KEY"] = {})
    => \A r \in Reqs :
         OnDirect(r)
         => /\ req[r].pc \in {"Idle", "Failed"}
            /\ req[r].calls = << >>
            /\ req[r].reply = NoReply
            /\ Finished(r) => (Len(req[r].out) = 1 /\ Response(r).status = 500)

\* C3 witness: the server runs without the key, a /groqlive request has
\* failed with 500 and a request on another route was served.
C3_Witness ==
    /\ mainPc = "serving" /\ env["GROQ_API_KEY"] = {}
    /\ \E r \in Reqs : OnDirect(r) /\ req[r].pc = "Failed" /\ Response(r).status = 500
    /\ \E r \in Reqs : ~OnDirect(r) /\ req[r].pc = "Done"

\* C4: with the chain-backend credential absent at startup, main fails before
\* binding: the server never serves and no request is dispatched or answered.
C4_MissingChainKeyFatal ==
    /\ (Started /\ env["OPENROUTER_API_KEY"] = {})
       => /\ mainPc \in {"config", "failed"}
          /\ \A r \in Reqs : req[r].pc = "NotReceived" /\ req[r].out = << >>
    /\ (\E r \in Reqs : req[r].pc # "NotReceived")
       => env["OPENROUTER_API_KEY"] # {}

\* C4 witness: main has returned the error while the direct key was present.
C4_Witness ==
    /\ mainPc = "failed" /\ mainErr = "OPENROUTER_API_KEY: NotPresent"
    /\ env["OPENROUTER_API_KEY"] = {} /\ env["GROQ_API_KEY"] # {}

\* C5: on the chain route, primary text Y gives 200 {answer: Y}; a failed
\* upstream call or a failed resolution gives 500, never a 200; the
\* placeholder is the answer when resolution succeeds without primary output.
C5_ChainOutcome ==
    \A r \in Reqs :
      (Finished(r) /\ OnChain(r))
      => LET rep == req[r].reply
         IN  /\ Len(req[r].out) = 1
             /\ (rep.run = "err" \/ rep.imm = "err")
                => /\ req[r].pc = "Failed"
                   /\ Response(r).status = 500
                   /\ Response(r).body.kind # "answer"
             /\ (rep.run = "ok" /\ rep.imm = "ok")
                => /\ req[r].pc = "Done"
                   /\ Response(r).status = 200
                   /\ Response(r).body.kind = "answer"
                   /\ \A y \in rep.primary : Response(r).body.answer = y
                   /\ rep.primary = {} => Response(r).body.answer = "No answer received"
                   /\ (Response(r).body.answer = "No answer received") => rep.primary = {}

\* C5 witness: the call succeeded and the resolution failed.
C5_Witness ==
    \E r \in Reqs :
      /\ OnChain(r) /\ req[r].pc = "Failed"
      /\ req[r].reply.run = "ok" /\ req[r].reply.imm = "err"

\* C6 as stated: every 200 answer envelope, on either route, carries a
\* non-empty answer.
C6_AnswerNonEmpty ==
    \A r \in Reqs :
      (Finished(r) /\ (OnDirect(r) \/ OnChain(r)) /\ Response(r).status = 200)
      => /\ Response(r).body.kind = "answer"
         /\ Response(r).body.answer # ""

IsGeneric500(resp) == resp.status = 500 /\ resp.body.kind = "plain"

Rank(pc) ==
    CASE pc = "NotReceived" -> 0
      [] pc = "Idle"        -> 1
      [] pc = "Calling"     -> 2
      [] pc = "Extracting"  -> 3
      [] OTHER              -> 4
PipelineStep(r) ==
    /\ Rank(req'[r].pc) >= Rank(req[r].pc)
    /\ Finished(r) => req'[r] = req[r]
    /\ (req'[r].pc = "Calling" /\ req[r].pc # "Calling") => req[r].pc = "Idle"
    /\ (req'[r].pc = "Extracting" /\ req[r].pc # "Extracting") => req[r].pc = "Calling"
    /\ (req'[r].pc = "Done" /\ req[r].pc # "Done") => req[r].pc = "Extracting"
    /\ Len(req'[r].calls) <= 1
    /\ Len(req'[r].calls) = IF req'[r].pc \in {"Calling", "Extracting", "Done"} THEN 1
                            ELSE Len(req[r].calls)
    /\ Len(req'[r].out) = IF req'[r].pc \in {"Done", "Failed"} THEN 1 ELSE 0
    /\ req'[r].pc = "Done" => req'[r].out[1].status = 200
    /\ req'[r].pc = "Failed" => req'[r].out[1].status # 200

\* C8: a request on either LLM route moves Idle -> Calling -> Extracting ->
\* Done | Failed, never backwards; at most one outbound call is made; Done
\* and Failed are terminal, and exactly one response is sent on reaching them.
C8_LinearPipeline ==
    [][\A r \in Reqs :
         req'[r].route \in {"/completion", "/groqlive"} => PipelineStep(r)]_vars

\* C8 witness: one request Done, another Failed after its one call.
C8_Witness ==
    \E r1, r2 \in Reqs :
      /\ OnDirect(r1) /\ req[r1].pc = "Done" /\ Len(req[r1].calls) = 1
      /\ OnChain(r2) /\ req[r2].pc = "Failed" /\ Len(req[r2].calls) = 1
      /\ Len(req[r1].out) = 1 /\ Len(req[r2].out) = 1

\* C9: the response is decided by the request's route, question and own
\* upstream reply and by the configuration fixed at startup: two finished
\* requests that agree on route, question and reply carry the same response,
\* and every direct-route request saw the same credential.
C9_ResponseDependsOnOwnInputs ==
    /\ \A r1, r2 \in Reqs :
         (Finished(r1) /\ Finished(r2)
            /\ req[r1].route = req[r2].route
            /\ req[r1].arg = req[r2].arg
            /\ req[r1].reply = req[r2].reply)
         => /\ req[r1].out = req[r2].out
            /\ req[r1].calls = req[r2].calls
    /\ \A r \in Reqs :
         (OnDirect(r) /\ req[r].pc # "Idle")
         => ((req[r].calls = << >>) <=> (env["GROQ_API_KEY"] = {}))
    /\ \A r \in Reqs : \A i \in DOMAIN req[r].calls :
         /\ OnDirect(r) => req[r].calls[i].content = req[r].arg
         /\ OnChain(r) => /\ req[r].calls[i].prompt[2] = req[r].arg
                          /\ req[r].calls[i].auth \in env["OPENROUTER_API_KEY"]
                          /\ \A m \in env["MODEL"] : req[r].calls[i].model = m
                          /\ env["MODEL"] = {}
                             => req[r].calls[i].model = "meta-llama/llama-3.2-3b-instruct"

\* C9 witness: two distinct requests with the same question and the same
\* reply have both been answered.
C9_Witness ==
    \E r1, r2 \in Reqs :
      /\ r1 # r2
      /\ OnDirect(r1) /\ OnDirect(r2)
      /\ req[r1].pc = "Done" /\ req[r2].pc = "Done"
      /\ req[r1].arg = req[r2].arg
      /\ req[r1].reply = req[r2].reply

\* C10: on the direct route a success status with a body that does not
\* decode as JSON, or a transport failure of the call, is answered 500, not
\* 200 with the placeholder.
C10_UndecodableBodyIs500 ==
    \A r \in Reqs :
      (Finished(r) /\ OnDirect(r))
      => /\ (GotHttp(r) /\ InSuccessRange(req[r].reply.status)
               /\ ~DecodesAsJson(req[r].reply.body))
            => /\ req[r].pc = "Failed"
               /\ IsGeneric500(Response(r))
         /\ req[r].reply.kind = "senderr"
            => /\ req[r].pc = "Failed"
               /\ IsGeneric500(Response(r))

\* C10 witness: a 200 reply with a body that is not JSON ended in 500.
C10_Witness ==
    \E r \in Reqs :
      /\ GotHttp(r) /\ req[r].reply.status = 200
      /\ req[r].reply.body = BodyOk(RawText("<html>"))
      /\ req[r].pc = "Failed" /\ Response(r).status = 500

====
